---------------------------- MODULE Spec2Model ----------------------------
(***************************************************************************)
(* A model of the dense linear-algebra library of src/src/lib.rs           *)
(* (Matrix and Vector over f64).                                           *)
(*                                                                         *)
(* Numbers.  An f64 is modelled as a pair <<n, d>> with d >= 0:            *)
(*   d > 0           the finite value n/d, in lowest terms,                *)
(*   <<1, 0>>        +infinity,   <<-1, 0>>  -infinity,                    *)
(*   <<0, 0>>        NaN.                                                  *)
(* +, -, * and / follow the IEEE-754 rules for infinities and NaN and are  *)
(* exact on finite values (rounding is abstracted away, which is the       *)
(* "exact arithmetic" reading of the library's contracts).  sqrt is not    *)
(* rational, so sqrt and the power iteration's division round down to a    *)
(* multiple of 1/Scale.  Negative zero is not modelled: no operation of    *)
(* the library can tell it from zero except through the sign of x / 0.     *)
(*                                                                         *)
(* A Matrix is its sequence of rows (1-based here, 0-based in the code),   *)
(* a Vector is its sequence of components.                                 *)
(***************************************************************************)
EXTENDS Integers, Sequences, FiniteSets, TLC

(***************************************************************************)
(* Bounds of the model.                                                    *)
(***************************************************************************)
\* largest number of rows or columns of an operand
MaxDim == 3
\* largest number of cells of an operand of a unary operation
MaxCells == 9
\* operands hold naturals whose sum is at most MaxWeight
MaxWeight == 4
\* the same two bounds for each operand of a binary operation
MaxBinCells == 6
MaxBinWeight == 2
\* largest max_iters handed to eigenvector
MaxIters == 3
\* sqrt and the iterate's division keep 1/Scale precision
Scale == 10
\* how many results of earlier calls a later call may be applied to in a row
MaxChain == 1

(***************************************************************************)
(* f64 arithmetic.                                                         *)
(***************************************************************************)
Abs(x) == IF x < 0 THEN -x ELSE x

Sgn(x) == IF x < 0 THEN -1 ELSE IF x > 0 THEN 1 ELSE 0

RECURSIVE GCD(_, _)
GCD(a, b) == IF b = 0 THEN a ELSE GCD(b, a % b)

\* the f64 n/d for integers n and d >= 0
Num(n, d) ==
    IF d = 0 THEN <<Sgn(n), 0>>
    ELSE LET g == GCD(Abs(n), d) IN <<n \div g, d \div g>>

Zero == <<0, 1>>
One == <<1, 1>>
NaN == <<0, 0>>
PosInf == <<1, 0>>
NegInf == <<-1, 0>>

Int2F(k) == <<k, 1>>

IsNaN(x) == x = NaN
IsFinite(x) == x[2] > 0

FAdd(x, y) ==
    IF IsNaN(x) \/ IsNaN(y) THEN NaN
    ELSE IF x[2] = 0 /\ y[2] = 0 THEN (IF x = y THEN x ELSE NaN)
    ELSE IF x[2] = 0 THEN x
    ELSE IF y[2] = 0 THEN y
    ELSE Num(x[1] * y[2] + y[1] * x[2], x[2] * y[2])

FNeg(x) == <<-x[1], x[2]>>

FSub(x, y) == FAdd(x, FNeg(y))

\* inf * 0 = NaN, inf * x = +-inf, NaN * x = NaN all come out of Num
FMul(x, y) == Num(x[1] * y[1], x[2] * y[2])

\* x / 0 = +-inf by the sign of x, 0 / 0 = NaN, inf / inf = NaN, x / inf = 0
FDiv(x, y) ==
    LET s == IF y[1] < 0 THEN -1 ELSE 1
    IN  Num(s * x[1] * y[2], x[2] * Abs(y[1]))

FAbs(x) == <<Abs(x[1]), x[2]>>

\* x < y on f64: false whenever either side is NaN
FLt(x, y) ==
    /\ ~IsNaN(x)
    /\ ~IsNaN(y)
    /\ IF x[2] = 0 /\ y[2] = 0 THEN x[1] < y[1]
       ELSE IF x[2] = 0 THEN x[1] < 0
       ELSE IF y[2] = 0 THEN y[1] > 0
       ELSE x[1] * y[2] < y[1] * x[2]

\* f64::partial_cmp: "none" when either side is NaN
partial_cmp(x, y) ==
    IF IsNaN(x) \/ IsNaN(y) THEN "none"
    ELSE IF FLt(x, y) THEN "less"
    ELSE IF FLt(y, x) THEN "greater"
    ELSE "equal"

\* x == 0.0
IsZero(x) == x = Zero

\* the largest r in lo..hi with r * r <= x, given lo * lo <= x
RECURSIVE ISqrtIn(_, _, _)
ISqrtIn(x, lo, hi) ==
    IF lo >= hi THEN lo
    ELSE LET mid == (lo + hi + 1) \div 2
         IN  IF mid * mid <= x THEN ISqrtIn(x, mid, hi) ELSE ISqrtIn(x, lo, mid - 1)

ISqrt(x) == ISqrtIn(x, 0, IF x < 40000 THEN x ELSE 40000)

\* a finite x rounded down to a multiple of 1/Scale
Fl(x) == IF IsFinite(x) THEN Num((x[1] * Scale) \div x[2], Scale) ELSE x

\* f64::sqrt: NaN for NaN and for negatives, +inf for +inf
FSqrt(x) ==
    IF IsNaN(x) \/ x[1] < 0 THEN NaN
    ELSE IF x[2] = 0 THEN x
    ELSE Num(ISqrt((x[1] * Scale * Scale) \div x[2]), Scale)

\* Iterator::sum over a sequence of f64, left to right from 0.0
RECURSIVE FSum(_)
FSum(s) == IF s = <<>> THEN Zero ELSE FAdd(FSum(SubSeq(s, 1, Len(s) - 1)), s[Len(s)])

(***************************************************************************)
(* Matrices and vectors.                                                   *)
(***************************************************************************)
\* a function on 1..n, evaluated into the sequence of its values
Vec(f) == f \o <<>>

nrows(M) == Len(M)
ncols(M) == IF Len(M) = 0 THEN 0 ELSE Len(M[1])
dim(M) == <<nrows(M), ncols(M)>>

\* Array2::zeros((r, c))
zeros(r, c) == Vec([i \in 1..r |-> Vec([j \in 1..c |-> Zero])])

zero(rows, cols) == zeros(rows, cols)

identity(size) == Vec([i \in 1..size |-> Vec([j \in 1..size |-> IF i = j THEN One ELSE Zero])])


(***************************************************************************)
(* Outcomes of a call.  kind is "Ok" (a value), "None" (Option::None),     *)
(* "Err" (Err(msg)), "Panic" (the call unwinds) or "Running"; the value is *)
(* in num (an f64), vec (a Vector), mat (a Matrix) or mat and mat2 (the    *)
(* pair of lu_decomposition); work counts the per-row, per-cell or         *)
(* per-element computations the call started.                              *)
(***************************************************************************)
NoVal == <<>>

Outcome(k, m, x, vc, m1, m2, wk) ==
    [kind |-> k, msg |-> m, num |-> x, vec |-> vc, mat |-> m1, mat2 |-> m2, work |-> wk]

OkNum(x, wk) == Outcome("Ok", "", x, NoVal, NoVal, NoVal, wk)
OkVec(vc, wk) == Outcome("Ok", "", Zero, vc, NoVal, NoVal, wk)
OkMat(m1, wk) == Outcome("Ok", "", Zero, NoVal, m1, NoVal, wk)
OkPair(m1, m2, wk) == Outcome("Ok", "", Zero, NoVal, m1, m2, wk)
Err(m) == Outcome("Err", m, Zero, NoVal, NoVal, NoVal, 0)
None == Outcome("None", "", Zero, NoVal, NoVal, NoVal, 0)
Panic(wk) == Outcome("Panic", "", Zero, NoVal, NoVal, NoVal, wk)
Running(wk) == Outcome("Running", "", Zero, NoVal, NoVal, NoVal, wk)

\* the Err messages of lib.rs
ErrAddDim == "Matrices must be of the same dimensions"
ErrMulDim == "Inner matrix dimensions must match for multiplication"
ErrInvNotSquare == "Only square matrices can be inverted"
ErrSingular == "Matrix is not invertible"
ErrLuNotSquare == "Matrix must be square"
ErrNoConverge == "Power iteration did not converge"
ErrRayleigh == "Denominator in Rayleigh quotient is zero"
ErrMatVecDim == "Matrix and vector dimensions must match"
ErrDotDim == "Vectors must be of the same length"

(***************************************************************************)
(* Determinant engine.                                                     *)
(***************************************************************************)
\* rows and columns other than the excluded ones, in their order
create_minor(matrix, row_to_exclude, col_to_exclude) ==
    Vec([r \in 1..(nrows(matrix) - 1) |->
        Vec([c \in 1..(ncols(matrix) - 1) |->
            matrix[IF r < row_to_exclude THEN r ELSE r + 1]
                  [IF c < col_to_exclude THEN c ELSE c + 1]])])

RECURSIVE calculate_determinant(_)
RECURSIVE DetLoop(_, _, _, _)

\* the mutant never flips the sign
DetLoop_NoSignFlip(matrix, col, determinant, sign) ==
    IF col > nrows(matrix) THEN determinant
    ELSE DetLoop(matrix, col + 1,
                 FAdd(determinant,
                      FMul(FMul(sign, matrix[1][col]),
                           calculate_determinant(create_minor(matrix, 1, col)))),
                 sign)

\* the loop "for col in 0..rows" with its two accumulators; col is 1-based
DetLoop(matrix, col, determinant, sign) ==
    IF col > nrows(matrix) THEN determinant
    ELSE DetLoop(matrix, col + 1,
                 FAdd(determinant,
                      FMul(FMul(sign, matrix[1][col]),
                           calculate_determinant(create_minor(matrix, 1, col)))),
                 FMul(sign, Int2F(-1)))

calculate_determinant(matrix) ==
    IF nrows(matrix) = 1 THEN matrix[1][1]
    ELSE DetLoop(matrix, 1, Zero, One)

determinant(M) ==
    IF nrows(M) # ncols(M) THEN None
    ELSE OkNum(calculate_determinant(M), 0)

(***************************************************************************)
(* Inversion engine.                                                       *)
(***************************************************************************)
\* (-1.0f64).powi(e)
powi_neg1(e) == IF e % 2 = 0 THEN One ELSE Int2F(-1)

\* the triple (i, j, cofactor) one parallel task yields; i, j are 1-based
cofactor(M, i, j) ==
    FMul(calculate_determinant(create_minor(M, i, j)), powi_neg1((i - 1) + (j - 1)))

\* adjugate[[j, i]] = cofactor of (i, j)
adjugate(M) ==
    Vec([j \in 1..nrows(M) |-> Vec([i \in 1..ncols(M) |-> cofactor(M, i, j)])])

mapv_div(M, det) == Vec([i \in 1..nrows(M) |-> Vec([j \in 1..ncols(M) |-> FDiv(M[i][j], det)])])

\* the mutant takes a non-square matrix for a singular one
inverse_NotSquareAsSingular(M) ==
    IF nrows(M) # ncols(M) THEN Err(ErrSingular)
    ELSE LET d == determinant(M)
             det == IF d.kind = "Ok" THEN d.num ELSE Zero
         IN  IF IsZero(det) THEN Err(ErrSingular)
             ELSE OkMat(mapv_div(adjugate(M), det), nrows(M) * ncols(M))

inverse(M) ==
    IF nrows(M) # ncols(M) THEN Err(ErrInvNotSquare)
    ELSE LET d == determinant(M)
             det == IF d.kind = "Ok" THEN d.num ELSE Zero
         IN  IF IsZero(det) THEN Err(ErrSingular)
             ELSE OkMat(mapv_div(adjugate(M), det), nrows(M) * ncols(M))

(***************************************************************************)
(* LU decomposer.                                                          *)
(***************************************************************************)
\* (0..i).fold(0.0, |sum, j| sum + l[j] * u[j]) over the first cnt terms
RECURSIVE FoldDot(_, _, _)
FoldDot(l, u, cnt) ==
    IF cnt = 0 THEN Zero
    ELSE FAdd(FoldDot(l, u, cnt - 1), FMul(l[cnt], u[cnt]))

Column(M, k) == Vec([j \in 1..nrows(M) |-> M[j][k]])

\* row i of upper after the first inner loop of pivot i
LuUpperRow(A, lower, upper, i) ==
    Vec([k \in 1..nrows(A) |->
        IF k >= i THEN FSub(A[i][k], FoldDot(lower[i], Column(upper, k), i - 1))
        ELSE upper[i][k]])

\* the mutant forgets to subtract the fold from the column of lower
LuLowerEntry_NoFold(A, lower, upper, i, k) ==
    FDiv(A[k][i], upper[i][i])

\* lower[[k, i]] for k > i, computed from the updated upper
LuLowerEntry(A, lower, upper, i, k) ==
    FDiv(FSub(A[k][i], FoldDot(lower[k], Column(upper, i), i - 1)), upper[i][i])

RECURSIVE LuLoop(_, _, _, _)
\* the loop "for i in 0..n"; yields <<lower, upper>>
LuLoop(A, lower, upper, i) ==
    IF i > nrows(A) THEN <<lower, upper>>
    ELSE LET up == Vec([r \in 1..nrows(A) |->
                      IF r = i THEN LuUpperRow(A, lower, upper, i) ELSE upper[r]])
             lo == Vec([k \in 1..nrows(A) |-> Vec([c \in 1..nrows(A) |->
                      IF c # i \/ k < i THEN lower[k][c]
                      ELSE IF k = i THEN One
                      ELSE LuLowerEntry(A, lower, up, i, k)])])
         IN  LuLoop(A, lo, up, i + 1)

lu_decomposition(M) ==
    IF nrows(M) # ncols(M) THEN Err(ErrLuNotSquare)
    ELSE LET lu == LuLoop(M, zeros(nrows(M), nrows(M)), zeros(nrows(M), nrows(M)), 1)
         IN  OkPair(lu[1], lu[2], 0)


(***************************************************************************)
(* Arithmetic and structural operations, norms, vectors.                   *)
(***************************************************************************)
Matrix_add(self, other) ==
    IF dim(self) # dim(other) THEN Err(ErrAddDim)
    ELSE OkMat(Vec([i \in 1..nrows(self) |->
                Vec([j \in 1..ncols(self) |-> FAdd(self[i][j], other[i][j])])]),
            nrows(self) * ncols(self))

\* the closure of multiply's par_iter: row i of the product, as a 1 x m array
multiply_row(self, other, i) ==
    Vec([j \in 1..ncols(other) |->
        FSum(Vec([k \in 1..ncols(self) |-> FMul(self[i][k], other[k][j])]))])

transpose(self) ==
    Vec([j \in 1..ncols(self) |-> Vec([i \in 1..nrows(self) |-> self[i][j]])])

\* the cells of a matrix in row-major order (Array2::iter)
RECURSIVE Flatten(_)
Flatten(M) == IF M = <<>> THEN <<>> ELSE Flatten(SubSeq(M, 1, Len(M) - 1)) \o M[Len(M)]

MapAbs(s) == Vec([i \in 1..Len(s) |-> FAbs(s[i])])
MapSq(s) == Vec([i \in 1..Len(s) |-> FMul(s[i], s[i])])

Matrix_l1_norm(self) == FSum(MapAbs(Flatten(self)))

Matrix_l2_norm(self) == FSqrt(FSum(MapSq(Flatten(self))))

\* Iterator::max_by(|x, y| x.partial_cmp(y).unwrap()) over the first cnt items:
\* the last maximum, or "panic" once a comparison yields None
RECURSIVE MaxBy(_, _)
MaxBy(s, cnt) ==
    IF cnt = 1 THEN s[1]
    ELSE LET m == MaxBy(s, cnt - 1)
         IN  IF m = "panic" THEN "panic"
             ELSE IF partial_cmp(m, s[cnt]) = "none" THEN "panic"
             ELSE IF partial_cmp(m, s[cnt]) = "greater" THEN m
             ELSE s[cnt]

infinity_norm(self) ==
    LET sums == Vec([i \in 1..nrows(self) |-> FSum(MapAbs(self[i]))])
    IN  IF nrows(self) = 0 THEN OkNum(Zero, 0)
        ELSE IF MaxBy(sums, nrows(self)) = "panic" THEN Panic(nrows(self))
        ELSE OkNum(MaxBy(sums, nrows(self)), nrows(self))

Min(a, b) == IF a < b THEN a ELSE b

trace(self) == FSum(Vec([i \in 1..Min(nrows(self), ncols(self)) |-> self[i][i]]))

kronecker_product(self, other) ==
    Vec([r \in 1..(nrows(self) * nrows(other)) |->
        Vec([c \in 1..(ncols(self) * ncols(other)) |->
            FMul(self[((r - 1) \div nrows(other)) + 1][((c - 1) \div ncols(other)) + 1],
                 other[((r - 1) % nrows(other)) + 1][((c - 1) % ncols(other)) + 1])])])

\* zip stops at the shorter of the two slices
Vector_add(self, other) ==
    OkVec(Vec([i \in 1..Min(Len(self), Len(other)) |-> FAdd(self[i], other[i])]),
       Min(Len(self), Len(other)))

dot(self, other) ==
    IF Len(self) # Len(other) THEN Err(ErrDotDim)
    ELSE OkNum(FSum(Vec([i \in 1..Len(self) |-> FMul(self[i], other[i])])), Len(self))

magnitude(self) == FSqrt(FSum(MapSq(self)))

normalize(self) ==
    IF IsZero(magnitude(self)) THEN self
    ELSE Vec([i \in 1..Len(self) |-> Fl(FDiv(self[i], magnitude(self)))])

Vector_l1_norm(self) == FSum(MapAbs(self))

Vector_l2_norm(self) == FSqrt(FSum(MapSq(self)))

\* the mutant compares the row count with the vector's length
matvec_mismatch_Rows(self, x) == nrows(self) # Len(x)

matvec_mismatch(self, x) == ncols(self) # Len(x)

\* each row is zipped with v, so a term exists up to the shorter of the two
multiply_vector(self, x) ==
    IF matvec_mismatch(self, x) THEN Err(ErrMatVecDim)
    ELSE OkVec(Vec([i \in 1..nrows(self) |->
                FSum(Vec([k \in 1..Min(ncols(self), Len(x)) |-> FMul(self[i][k], x[k])]))]),
            nrows(self))

\* the mutant tests the denominator before the dimensions
eigenvalue_ZeroCheckFirst(self, x) ==
    LET av == multiply_vector(self, x)
        numerator == IF av.kind = "Ok" THEN dot(av.vec, x) ELSE av
        denominator == dot(x, x)
    IN  IF IsZero(denominator.num) THEN Err(ErrRayleigh)
        ELSE IF av.kind # "Ok" THEN Err(av.msg)
        ELSE IF numerator.kind # "Ok" THEN Err(numerator.msg)
        ELSE OkNum(FDiv(numerator.num, denominator.num), 0)

eigenvalue(self, x) ==
    LET av == multiply_vector(self, x)
        numerator == IF av.kind = "Ok" THEN dot(av.vec, x) ELSE av
        denominator == dot(x, x)
    IN  IF av.kind # "Ok" THEN Err(av.msg)
        ELSE IF numerator.kind # "Ok" THEN Err(numerator.msg)
        ELSE IF denominator.kind # "Ok" THEN Err(denominator.msg)
        ELSE IF IsZero(denominator.num) THEN Err(ErrRayleigh)
        ELSE OkNum(FDiv(numerator.num, denominator.num), 0)

\* vec![1.0; n]
ones(n) == Vec([i \in 1..n |-> One])

\* one pass of eigenvector's loop body up to the test: b_k1 after "/= norm"
eigen_next(self, b) ==
    LET m == multiply_vector(self, b)
    IN  IF m.kind # "Ok" THEN m
        ELSE OkVec(Vec([i \in 1..Len(m.vec) |-> Fl(FDiv(m.vec[i], magnitude(m.vec)))]), 0)

\* (&b_k1.data - &b_k.data).par_iter().all(|&x| x.abs() < tolerance)
eigen_close(b1, b, tol) ==
    \A i \in 1..Len(b1) : FLt(FAbs(FSub(b1[i], b[i])), tol)


(***************************************************************************)
(* The operands a caller builds from raw data.                             *)
(***************************************************************************)
\* the sequences of len naturals whose sum is at most wt
RECURSIVE SeqsSum(_, _)
SeqsSum(len, wt) ==
    IF len = 0 THEN {<<>>}
    ELSE UNION {{<<x>> \o t : t \in SeqsSum(len - 1, wt - x)} : x \in 0..wt}

\* Array2::from_shape_vec((r, c), s)
from_shape_vec(r, c, s) == Vec([i \in 1..r |-> Vec([j \in 1..c |-> Int2F(s[(i - 1) * c + j])])])

\* Array1::from_vec(s)
from_vec(s) == Vec([i \in 1..Len(s) |-> Int2F(s[i])])

MatricesOf(cells, wt) ==
    UNION {{from_shape_vec(sh[1], sh[2], s) : s \in SeqsSum(sh[1] * sh[2], wt)} :
           sh \in {x \in (1..MaxDim) \X (1..MaxDim) : x[1] * x[2] <= cells}}

VectorsOf(wt) == UNION {{from_vec(s) : s \in SeqsSum(n, wt)} : n \in 1..MaxDim}

Matrices == MatricesOf(MaxCells, MaxWeight)
BinMatrices == MatricesOf(MaxBinCells, MaxBinWeight)
Vectors == VectorsOf(MaxWeight)
BinVectors == VectorsOf(MaxBinWeight)
Tolerances == {Zero, Num(1, Scale), One}

(***************************************************************************)
(* State.                                                                  *)
(***************************************************************************)
VARIABLES
    pc,              \* "idle", "multiply" (row tasks outstanding) or "eigenvector" (in the loop)
    op,              \* the public operation called last
    A,               \* its Matrix operand self, NoVal when it has none
    B,               \* its Matrix operand other, NoVal when it has none
    v,               \* its Vector operand (self, or the argument of eigenvalue)
    w,               \* its Vector operand other
    out,             \* its outcome; kind "Running" until it returns
    partial_results, \* multiply: the Vec the row tasks are collected into
    running,         \* multiply: the row tasks that have not finished
    b_k,             \* eigenvector: the iterate
    iters,           \* eigenvector: passes of the loop completed
    max_iters,       \* eigenvector: its argument
    tolerance,       \* eigenvector: its argument
    trail,           \* eigenvector: the iterates b_0 .. b_k the loop has held, in order
    chain            \* how many calls in a row took their operand from the previous outcome

vars == <<pc, op, A, B, v, w, out, partial_results, running, b_k, iters, max_iters, tolerance,
          trail, chain>>

Init ==
    /\ pc = "idle"
    /\ op = "none"
    /\ A = NoVal
    /\ B = NoVal
    /\ v = NoVal
    /\ w = NoVal
    /\ out = None
    /\ partial_results = <<>>
    /\ running = {}
    /\ b_k = <<>>
    /\ iters = 0
    /\ max_iters = 0
    /\ tolerance = Zero
    /\ trail = <<>>
    /\ chain = 0

\* A call may start when none is running.  The operations share no state, so
\* an earlier call matters to a later one only through a value handed on:
\* c = 0 is a first call on operands built from raw data, c > 0 a call on the
\* outcome of the call before it.
MayCall(c) ==
    /\ pc = "idle"
    /\ IF c = 0 THEN op = "none" ELSE op # "none" /\ c = chain + 1 /\ c <= MaxChain

\* a call that runs to its outcome in one step
Returns(name, m1, m2, v1, v2, outcome, c) ==
    /\ MayCall(c)
    /\ op' = name
    /\ A' = m1
    /\ B' = m2
    /\ v' = v1
    /\ w' = v2
    /\ out' = outcome
    /\ chain' = c
    /\ UNCHANGED <<pc, partial_results, running, b_k, iters, max_iters, tolerance, trail>>

CallDeterminant(M, c) == Returns("determinant", M, NoVal, NoVal, NoVal, determinant(M), c)

CallInverse(M, c) == Returns("inverse", M, NoVal, NoVal, NoVal, inverse(M), c)

CallLuDecomposition(M, c) ==
    Returns("lu_decomposition", M, NoVal, NoVal, NoVal, lu_decomposition(M), c)

CallMatrixAdd(M, N, c) == Returns("add", M, N, NoVal, NoVal, Matrix_add(M, N), c)

CallDot(x, y, c) == Returns("dot", NoVal, NoVal, x, y, dot(x, y), c)

CallVectorAdd(x, y, c) == Returns("Vector::add", NoVal, NoVal, x, y, Vector_add(x, y), c)

CallNormalize(x, c) ==
    Returns("normalize", NoVal, NoVal, x, NoVal, OkVec(normalize(x), Len(x)), c)

CallEigenvalue(M, x, c) == Returns("eigenvalue", M, NoVal, x, NoVal, eigenvalue(M, x), c)

(***************************************************************************)
(* multiply: the dimension check, then one task per row of self, run by    *)
(* the thread pool in any order, then the sequential merge.                *)
(***************************************************************************)
\* the mutant pushes each row as its task finishes
collect_slot_ByCompletion(results, i) ==
    CHOOSE p \in 1..Len(results) : results[p] = NoVal /\ \A q \in 1..(p - 1) : results[q] # NoVal

\* collect() of an indexed parallel iterator writes item i at position i
collect_slot(results, i) == i

\* the mutant checks the outer dimensions
multiply_mismatch_Outer(self, other) == nrows(self) # ncols(other)

multiply_mismatch(self, other) == ncols(self) # nrows(other)

CallMultiply(M, N, c) ==
    /\ MayCall(c)
    /\ op' = "multiply"
    /\ A' = M
    /\ B' = N
    /\ v' = NoVal
    /\ w' = NoVal
    /\ chain' = c
    /\ IF multiply_mismatch(M, N)
       THEN /\ out' = Err(ErrMulDim)
            /\ UNCHANGED <<pc, partial_results, running>>
       ELSE /\ out' = Running(0)
            /\ pc' = "multiply"
            /\ partial_results' = Vec([i \in 1..nrows(M) |-> NoVal])
            /\ running' = 1..nrows(M)
    /\ UNCHANGED <<b_k, iters, max_iters, tolerance, trail>>

RowTask(i) ==
    /\ pc = "multiply"
    /\ i \in running
    /\ running' = running \ {i}
    /\ partial_results' =
         Vec([p \in 1..Len(partial_results) |->
                IF p = collect_slot(partial_results, i) THEN multiply_row(A, B, i)
                ELSE partial_results[p]])
    /\ out' = Running(out.work + 1)
    /\ UNCHANGED <<pc, op, A, B, v, w, b_k, iters, max_iters, tolerance, trail, chain>>

\* for (i, partial) in partial_results.into_iter().enumerate(): row i := partial
MultiplyMerge ==
    /\ pc = "multiply"
    /\ running = {}
    /\ pc' = "idle"
    /\ out' = OkMat(Vec([i \in 1..Len(partial_results) |-> partial_results[i]]), out.work)
    /\ partial_results' = <<>>
    /\ UNCHANGED <<op, A, B, v, w, running, b_k, iters, max_iters, tolerance, trail, chain>>

(***************************************************************************)
(* eigenvector: the power iteration, one pass of its loop per step.        *)
(***************************************************************************)
CallEigenvector(M, mi, tol, c) ==
    /\ MayCall(c)
    /\ pc' = "eigenvector"
    /\ op' = "eigenvector"
    /\ A' = M
    /\ B' = NoVal
    /\ v' = NoVal
    /\ w' = NoVal
    /\ out' = Running(0)
    /\ b_k' = ones(nrows(M))
    /\ iters' = 0
    /\ max_iters' = mi
    /\ tolerance' = tol
    /\ trail' = <<ones(nrows(M))>>
    /\ chain' = c
    /\ UNCHANGED <<partial_results, running>>

\* the mutant goes on after the test is met
eigen_converged_Never(b1, b, tol) == FALSE

eigen_converged(b1, b, tol) == eigen_close(b1, b, tol)

EigenPass ==
    /\ pc = "eigenvector"
    /\ iters < max_iters
    /\ LET n == eigen_next(A, b_k)
       IN  IF n.kind # "Ok"
           THEN /\ out' = Err(n.msg)
                /\ pc' = "idle"
                /\ UNCHANGED <<b_k, iters, trail>>
           ELSE IF eigen_converged(n.vec, b_k, tolerance)
           THEN /\ out' = OkVec(n.vec, out.work)
                /\ pc' = "idle"
                /\ iters' = iters + 1
                /\ UNCHANGED <<b_k, trail>>
           ELSE /\ b_k' = n.vec
                /\ iters' = iters + 1
                /\ trail' = Append(trail, n.vec)
                /\ UNCHANGED <<pc, out>>
    /\ UNCHANGED <<op, A, B, v, w, partial_results, running, max_iters, tolerance, chain>>

EigenExhausted ==
    /\ pc = "eigenvector"
    /\ iters >= max_iters
    /\ pc' = "idle"
    /\ out' = Err(ErrNoConverge)
    /\ UNCHANGED <<op, A, B, v, w, partial_results, running, b_k, iters, max_iters, tolerance,
                   trail, chain>>

(***************************************************************************)
(* Spec: every call takes operands built from raw data.                    *)
(***************************************************************************)
\* no call has been made yet
Fresh == pc = "idle" /\ op = "none"

Next ==
    \/ Fresh /\ \E M \in Matrices : CallDeterminant(M, 0)
    \/ Fresh /\ \E M \in Matrices : CallInverse(M, 0)
    \/ Fresh /\ \E M \in Matrices : CallLuDecomposition(M, 0)
    \/ Fresh /\ \E M, N \in BinMatrices : CallMatrixAdd(M, N, 0)
    \/ Fresh /\ \E M, N \in BinMatrices : CallMultiply(M, N, 0)
    \/ \E i \in running : RowTask(i)
    \/ MultiplyMerge
    \/ Fresh /\ \E x, y \in BinVectors : CallDot(x, y, 0)
    \/ Fresh /\ \E x, y \in BinVectors : CallVectorAdd(x, y, 0)
    \/ Fresh /\ \E x \in Vectors : CallNormalize(x, 0)
    \/ Fresh /\ \E M \in BinMatrices, x \in BinVectors : CallEigenvalue(M, x, 0)
    \/ Fresh /\ \E M \in Matrices, mi \in 0..MaxIters, tol \in Tolerances :
                  CallEigenvector(M, mi, tol, 0)
    \/ EigenPass
    \/ EigenExhausted

Spec == Init /\ [][Next]_vars

(***************************************************************************)
(* SpecAll: the whole public surface, and calls whose operands are the     *)
(* values the call before returned.                                        *)
(***************************************************************************)
CallTranspose(M, c) ==
    Returns("transpose", M, NoVal, NoVal, NoVal, OkMat(transpose(M), 0), c)

CallL1Norm(M, c) == Returns("l1_norm", M, NoVal, NoVal, NoVal, OkNum(Matrix_l1_norm(M), 0), c)

CallL2Norm(M, c) == Returns("l2_norm", M, NoVal, NoVal, NoVal, OkNum(Matrix_l2_norm(M), 0), c)

CallInfinityNorm(M, c) == Returns("infinity_norm", M, NoVal, NoVal, NoVal, infinity_norm(M), c)

CallTrace(M, c) == Returns("trace", M, NoVal, NoVal, NoVal, OkNum(trace(M), 0), c)

CallKroneckerProduct(M, N, c) ==
    Returns("kronecker_product", M, N, NoVal, NoVal, OkMat(kronecker_product(M, N), 0), c)

CallMagnitude(x, c) == Returns("magnitude", NoVal, NoVal, x, NoVal, OkNum(magnitude(x), 0), c)

CallVectorL1Norm(x, c) ==
    Returns("Vector::l1_norm", NoVal, NoVal, x, NoVal, OkNum(Vector_l1_norm(x), 0), c)

CallVectorL2Norm(x, c) ==
    Returns("Vector::l2_norm", NoVal, NoVal, x, NoVal, OkNum(Vector_l2_norm(x), 0), c)

\* the matrices and the vector the last call returned
HeldMatrices == IF pc = "idle" /\ out.kind = "Ok" THEN {out.mat, out.mat2} \ {NoVal} ELSE {}
HeldVectors == IF pc = "idle" /\ out.kind = "Ok" THEN {out.vec} \ {NoVal} ELSE {}

\* a call on returned values may follow
Held == pc = "idle" /\ op # "none" /\ chain < MaxChain

NextAll ==
    \/ Next
    \/ Fresh /\ \E M \in BinMatrices : CallTranspose(M, 0)
    \/ Fresh /\ \E M \in BinMatrices : CallL1Norm(M, 0)
    \/ Fresh /\ \E M \in BinMatrices : CallL2Norm(M, 0)
    \/ Fresh /\ \E M \in BinMatrices : CallInfinityNorm(M, 0)
    \/ Fresh /\ \E M \in BinMatrices : CallTrace(M, 0)
    \/ Fresh /\ \E M, N \in BinMatrices : CallKroneckerProduct(M, N, 0)
    \/ Fresh /\ \E x \in BinVectors : CallMagnitude(x, 0)
    \/ Fresh /\ \E x \in BinVectors : CallVectorL1Norm(x, 0)
    \/ Fresh /\ \E x \in BinVectors : CallVectorL2Norm(x, 0)
    \/ Held /\ \E M \in HeldMatrices : CallDeterminant(M, chain + 1)
    \/ Held /\ \E M \in HeldMatrices : CallInverse(M, chain + 1)
    \/ Held /\ \E M \in HeldMatrices : CallLuDecomposition(M, chain + 1)
    \/ Held /\ \E M, N \in HeldMatrices : CallMatrixAdd(M, N, chain + 1)
    \/ Held /\ \E M, N \in HeldMatrices : CallMultiply(M, N, chain + 1)
    \/ Held /\ \E M \in HeldMatrices : CallTranspose(M, chain + 1)
    \/ Held /\ \E M \in HeldMatrices : CallL1Norm(M, chain + 1)
    \/ Held /\ \E M \in HeldMatrices : CallL2Norm(M, chain + 1)
    \/ Held /\ \E M \in HeldMatrices : CallInfinityNorm(M, chain + 1)
    \/ Held /\ \E M \in HeldMatrices : CallTrace(M, chain + 1)
    \/ Held /\ \E M, N \in HeldMatrices : CallKroneckerProduct(M, N, chain + 1)
    \/ Held /\ \E M \in HeldMatrices, mi \in 0..MaxIters, tol \in Tolerances :
                 CallEigenvector(M, mi, tol, chain + 1)
    \/ Held /\ \E x, y \in HeldVectors : CallDot(x, y, chain + 1)
    \/ Held /\ \E x, y \in HeldVectors : CallVectorAdd(x, y, chain + 1)
    \/ Held /\ \E x \in HeldVectors : CallNormalize(x, chain + 1)
    \/ Held /\ \E x \in HeldVectors : CallMagnitude(x, chain + 1)
    \/ Held /\ \E x \in HeldVectors : CallVectorL1Norm(x, chain + 1)
    \/ Held /\ \E x \in HeldVectors : CallVectorL2Norm(x, chain + 1)

SpecAll == Init /\ [][NextAll]_vars

(***************************************************************************)
(* Reference definitions the outcomes are compared with.  They are stated  *)
(* over the integers the operands hold, not through the library's code.    *)
(***************************************************************************)
IsSquare(M) == nrows(M) = ncols(M)

\* the integer an operand's cell holds
IntOf(x) == x[1]

PermsOf(n) == {f \in [1..n -> 1..n] : \A i, j \in 1..n : f[i] = f[j] => i = j}

Inversions(f, n) == Cardinality({p \in (1..n) \X (1..n) : p[1] < p[2] /\ f[p[1]] > f[p[2]]})

RECURSIVE PermProduct(_, _, _)
PermProduct(M, f, i) == IF i = 0 THEN 1 ELSE PermProduct(M, f, i - 1) * IntOf(M[i][f[i]])

RECURSIVE SumOver(_, _, _)
SumOver(M, perms, n) ==
    IF perms = {} THEN 0
    ELSE LET f == CHOOSE g \in perms : TRUE
         IN  (IF Inversions(f, n) % 2 = 0 THEN 1 ELSE -1) * PermProduct(M, f, n)
             + SumOver(M, perms \ {f}, n)

\* the Leibniz formula: the sum over the permutations of the signed products
LeibnizDet(M) == SumOver(M, PermsOf(nrows(M)), nrows(M))

RECURSIVE IntDot(_, _, _, _, _)
IntDot(X, Y, i, j, k) ==
    IF k = 0 THEN 0 ELSE IntDot(X, Y, i, j, k - 1) + IntOf(X[i][k]) * IntOf(Y[k][j])

\* cell [i, j] of the product of two integer matrices
RefCell(X, Y, i, j) == Int2F(IntDot(X, Y, i, j, ncols(X)))

\* the product of two matrices of f64, cell by cell
Product(X, Y) ==
    Vec([i \in 1..nrows(X) |-> Vec([j \in 1..ncols(Y) |->
        FSum(Vec([k \in 1..ncols(X) |-> FMul(X[i][k], Y[k][j])]))])])

(***************************************************************************)
(* C1.  inverse of a square matrix with a non-zero determinant, of any     *)
(* size n >= 1, is Ok(M) with A * M the identity.                          *)
(***************************************************************************)
C1_InverseIsInverse ==
    (op = "inverse" /\ IsSquare(A) /\ LeibnizDet(A) # 0)
        => (out.kind = "Ok" /\ Product(A, out.mat) = identity(nrows(A)))

\* what does hold: the same for the sizes n >= 2 alone
InverseIsInverseFromTwo ==
    (op = "inverse" /\ IsSquare(A) /\ nrows(A) >= 2 /\ LeibnizDet(A) # 0)
        => (out.kind = "Ok" /\ Product(A, out.mat) = identity(nrows(A)))

(***************************************************************************)
(* C4.  determinant is None exactly for a non-square matrix, and for a     *)
(* square one Some(d) with d the row-0 Laplace expansion, which equals the *)
(* Leibniz determinant.                                                    *)
(***************************************************************************)
C4_Determinant ==
    op = "determinant" =>
        /\ out.kind = "None" <=> ~IsSquare(A)
        /\ IsSquare(A) => out.kind = "Ok" /\ out.num = Int2F(LeibnizDet(A))

C4_Witness ==
    /\ op = "determinant"
    /\ nrows(A) = 3
    /\ out.kind = "Ok"
    /\ FLt(out.num, Zero)

UnitLower(L) ==
    \A i, j \in 1..nrows(L) :
        /\ i = j => L[i][j] = One
        /\ j > i => L[i][j] = Zero

Upper(U) == \A i, j \in 1..nrows(U) : j < i => U[i][j] = Zero

PivotsNonZero(U) == \A i \in 1..(nrows(U) - 1) : ~IsZero(U[i][i])

C10_InverseFailures ==
    op = "inverse" =>
        /\ out = Err(ErrInvNotSquare) <=> ~IsSquare(A)
        /\ out = Err(ErrSingular) <=> (IsSquare(A) /\ LeibnizDet(A) = 0)
        /\ out.kind = "Ok" <=> (IsSquare(A) /\ LeibnizDet(A) # 0)
        /\ out.kind = "Ok" => out.work = nrows(A) * ncols(A)
        /\ out.kind # "Ok" => out.work = 0
        /\ ErrInvNotSquare # ErrSingular

C10_Witness ==
    /\ op = "inverse"
    /\ nrows(A) = 3
    /\ ncols(A) = 3
    /\ out = Err(ErrSingular)
    /\ \A i \in 1..3 : \E j \in 1..3 : ~IsZero(A[i][j])


(***************************************************************************)
(* C2.  No public operation aborts the process: after any sequence of      *)
(* public operations, operands returned by earlier operations included,    *)
(* every call returns a value or a typed failure and never panics.         *)
(***************************************************************************)
C2_NoPanic == out.kind # "Panic"

RefRow(X, Y, i) == Vec([j \in 1..ncols(Y) |-> RefCell(X, Y, i, j)])

(***************************************************************************)
(* C3.  multiply of A and B with A.cols = B.rows is the A.rows x B.cols    *)
(* matrix of the cells sum_k A[i,k] * B[k,j], whatever order the row tasks *)
(* finish in: a finished row sits at its own index.                        *)
(***************************************************************************)
C3_MultiplyByIndex ==
    (op = "multiply" /\ ~multiply_mismatch(A, B)) =>
        /\ pc = "multiply" =>
             /\ Len(partial_results) = nrows(A)
             /\ \A i \in 1..nrows(A) :
                    IF i \in running THEN partial_results[i] = NoVal
                    ELSE partial_results[i] = RefRow(A, B, i)
        /\ pc = "idle" =>
             /\ out.kind = "Ok"
             /\ dim(out.mat) = <<nrows(A), ncols(B)>>
             /\ \A i \in 1..nrows(A) : out.mat[i] = RefRow(A, B, i)

\* row 1 (0-based) has finished before row 0, and the two rows differ
C3_Witness ==
    /\ op = "multiply"
    /\ pc = "multiply"
    /\ 1 \in running
    /\ 2 \notin running
    /\ nrows(A) >= 2
    /\ RefRow(A, B, 1) # RefRow(A, B, 2)

Last(s) == s[Len(s)]

\* the iterates held so far, and the outcome once the call has ended
C6_Shape ==
    (op = "eigenvector" /\ IsSquare(A)) =>
        /\ iters <= max_iters
        /\ Len(trail) >= 1
        /\ trail[1] = ones(nrows(A))
        /\ \A k \in 1..(Len(trail) - 1) :
              /\ trail[k + 1] = eigen_next(A, trail[k]).vec
              /\ ~eigen_close(trail[k + 1], trail[k], tolerance)
        /\ pc = "eigenvector" =>
              /\ out.kind = "Running"
              /\ iters = Len(trail) - 1
              /\ b_k = Last(trail)
        /\ pc = "idle" =>
              \/ /\ out.kind = "Ok"
                 /\ iters = Len(trail)
                 /\ out.vec = eigen_next(A, Last(trail)).vec
                 /\ eigen_close(out.vec, Last(trail), tolerance)
              \/ /\ out = Err(ErrNoConverge)
                 /\ iters = max_iters
                 /\ Len(trail) = max_iters + 1
        /\ (pc = "idle" /\ max_iters = 0) => out = Err(ErrNoConverge)

\* a pass ends the call or is one more pass of at most max_iters, and a call
\* that has ended makes no further pass
C6_Pass ==
    /\ (pc = "eigenvector" /\ pc' = "eigenvector") => (iters' = iters + 1 /\ iters' <= max_iters)
    /\ (op = "eigenvector" /\ pc = "idle") => UNCHANGED <<out, iters, b_k, trail>>

(***************************************************************************)
(* C6.  eigenvector on a square matrix starts from the all-ones vector of  *)
(* length A.rows, makes at most max_iters passes, and ends in exactly one  *)
(* of: Ok(b_k1) at the first pass whose b_k1 is within tolerance of b_k in *)
(* every component, or "Power iteration did not converge" after max_iters  *)
(* passes none of which met the test (at once when max_iters = 0).  Each   *)
(* pass that does not end the call counts one more of the max_iters, and a *)
(* call that has ended makes no further pass.                              *)
(***************************************************************************)
C6_Eigenvector == []C6_Shape /\ [][C6_Pass]_vars

\* converged at the second pass, the first pass not having met the test
C6_Witness ==
    /\ op = "eigenvector"
    /\ IsSquare(A)
    /\ pc = "idle"
    /\ out.kind = "Ok"
    /\ iters = 2
    /\ max_iters > 2

\* exhausted after max_iters > 0 passes on finite iterates
C6_WitnessExhausted ==
    /\ op = "eigenvector"
    /\ IsSquare(A)
    /\ pc = "idle"
    /\ out = Err(ErrNoConverge)
    /\ max_iters = MaxIters
    /\ \A i \in 1..Len(b_k) : IsFinite(b_k[i])
    /\ ~IsZero(tolerance)

(***************************************************************************)
(* C7.  Vector::add fails with a dimension mismatch whenever the lengths   *)
(* differ, and never returns a vector shorter than an operand.             *)
(***************************************************************************)
C7_VectorAddFails ==
    op = "Vector::add" =>
        /\ Len(v) # Len(w) => out.kind = "Err"
        /\ out.kind = "Ok" => (Len(out.vec) = Len(v) /\ Len(out.vec) = Len(w))

(***************************************************************************)
(* C8.  eigenvector never fails with "Matrix and vector dimensions must    *)
(* match", whatever the shape of the matrix.                               *)
(***************************************************************************)
C8_NeverDimensionMismatch ==
    (op = "eigenvector" /\ pc = "idle") =>
        \/ out.kind = "Ok"
        \/ out = Err(ErrNoConverge)

\* C8 as amended: eigenvector fails so exactly for a non-square matrix and max_iters >= 1,
\* at the first pass; any other call ends converged or not converged
C8_DimensionMismatchIffNotSquare ==
    (op = "eigenvector" /\ pc = "idle") =>
        /\ out = Err(ErrMatVecDim) <=> (~IsSquare(A) /\ max_iters >= 1)
        /\ out = Err(ErrMatVecDim) => iters = 0
        /\ out # Err(ErrMatVecDim) => (out.kind = "Ok" \/ out = Err(ErrNoConverge))
        /\ (~IsSquare(A) /\ max_iters = 0) => out = Err(ErrNoConverge)

C8_Witness ==
    /\ op = "eigenvector"
    /\ pc = "idle"
    /\ nrows(A) = 2
    /\ ncols(A) = 3
    /\ out = Err(ErrMatVecDim)

C11_ZeroSafePass ==
    (op = "eigenvector" /\ IsSquare(A)) =>
        /\ \A k \in 1..(Len(trail) - 1) :
              trail[k + 1] = normalize(multiply_vector(A, trail[k]).vec)
        /\ (pc = "idle" /\ out.kind = "Ok") =>
              out.vec = normalize(multiply_vector(A, Last(trail)).vec)
        /\ (pc = "idle" /\ A = zero(nrows(A), ncols(A)) /\ max_iters >= 2
                /\ FLt(Zero, tolerance)) =>
              (out.kind = "Ok" /\ out.vec = zeros(1, nrows(A))[1])

\* over the integers the operands hold: sum_{i <= n} x[i] * y[i]
RECURSIVE IntVecDot(_, _, _)
IntVecDot(x, y, n) ==
    IF n = 0 THEN 0 ELSE IntVecDot(x, y, n - 1) + IntOf(x[n]) * IntOf(y[n])

\* (M x) . x = sum_{i <= n} (row i of M . x) * x[i]
RECURSIVE IntQuadratic(_, _, _)
IntQuadratic(M, x, n) ==
    IF n = 0 THEN 0
    ELSE IntQuadratic(M, x, n - 1) + IntVecDot(M[n], x, Len(x)) * IntOf(x[n])

\* the failures the library reports for operands whose dimensions disagree
DimensionMismatch == {Err(ErrMatVecDim), Err(ErrDotDim)}

(***************************************************************************)
(* C12.  eigenvalue(A, v) is the Rayleigh quotient ((A v) . v) / (v . v)   *)
(* when A is square with A.cols the length of v and v . v is not zero; it  *)
(* fails with "Denominator in Rayleigh quotient is zero" when the          *)
(* dimensions match and v . v is zero; and it fails with a dimension       *)
(* mismatch whenever A.cols or A.rows differs from the length of v, a zero *)
(* vector of the wrong length included.                                    *)
(***************************************************************************)
C12_Eigenvalue ==
    op = "eigenvalue" =>
        LET fits == ncols(A) = Len(v) /\ nrows(A) = Len(v)
            vv == IntVecDot(v, v, Len(v))
        IN  /\ ~fits <=> out \in DimensionMismatch
            /\ ncols(A) # Len(v) => out = Err(ErrMatVecDim)
            /\ (ncols(A) = Len(v) /\ nrows(A) # Len(v)) => out = Err(ErrDotDim)
            /\ (fits /\ vv = 0) <=> out = Err(ErrRayleigh)
            /\ (fits /\ vv # 0) <=>
                  (out.kind = "Ok" /\ out.num = Num(IntQuadratic(A, v, Len(v)), vv))

\* a quotient that is no integer, on a 2 x 2 matrix
C12_Witness ==
    /\ op = "eigenvalue"
    /\ dim(A) = <<2, 2>>
    /\ out.kind = "Ok"
    /\ out.num[2] > 1

\* a zero vector of the wrong length is refused for its length
C12_WitnessPriority ==
    /\ op = "eigenvalue"
    /\ dim(A) = <<2, 2>>
    /\ v = <<Zero, Zero, Zero>>
    /\ out = Err(ErrMatVecDim)

=============================================================================
